---------------------------- MODULE Spec2Model ----------------------------
(***************************************************************************)
(* Model of the AutiConnect bot (src/main.py): the in-memory Database, the *)
(* three ConversationHandlers registered in main() with their per-(chat,   *)
(* user) state, the per-user context.user_data scratch map, the inline     *)
(* keyboards the handlers render, and one action per handler callback.     *)
(*                                                                         *)
(* Text (message bodies, callback data, stored strings) is a sequence of   *)
(* lexemes: every digit, separator and whitespace character is a lexeme of *)
(* its own, a run of other characters is one lexeme.  "join_12" is         *)
(* <<"join", "_", "1", "2">>.  The empty list [] and the empty string ""    *)
(* are both << >>.                                                         *)
(***************************************************************************)
EXTENDS Integers, Sequences, FiniteSets, TLC

(***************************************************************************)
(* Python dicts: functions with a dynamic domain.                          *)
(***************************************************************************)
EmptyDict == << >>

Has(d, k) == k \in DOMAIN d

Put(d, k, v) == [x \in (DOMAIN d) \cup {k} |-> IF x = k THEN v ELSE d[x]]

Del(d, k) == [x \in (DOMAIN d) \ {k} |-> d[x]]

Get(d, k, default) == IF k \in DOMAIN d THEN d[k] ELSE default

None == "None"

(***************************************************************************)
(* Python str operations used by the handlers.                             *)
(***************************************************************************)
Digits == <<"0", "1", "2", "3", "4", "5", "6", "7", "8", "9">>

IsDigit(ch) == \E i \in 1..10 : Digits[i] = ch

DigitVal(ch) == (CHOOSE i \in 1..10 : Digits[i] = ch) - 1

Whitespace == {" ", "\n"}

RECURSIVE LStrip(_)
LStrip(s) ==
    IF s /= << >> /\ Head(s) \in Whitespace THEN LStrip(Tail(s)) ELSE s

RECURSIVE RStrip(_)
RStrip(s) ==
    IF s /= << >> /\ s[Len(s)] \in Whitespace
    THEN RStrip(SubSeq(s, 1, Len(s) - 1))
    ELSE s

\* str.strip()
Strip(s) == RStrip(LStrip(s))

\* str.split(sep): the pieces between the separators, at least one piece
RECURSIVE Split(_, _)
Split(s, sep) ==
    IF \A i \in 1..Len(s) : s[i] /= sep
    THEN <<s>>
    ELSE LET i == CHOOSE j \in 1..Len(s) :
                      s[j] = sep /\ \A k \in 1..(j - 1) : s[k] /= sep
         IN  <<SubSeq(s, 1, i - 1)>> \o Split(SubSeq(s, i + 1, Len(s)), sep)

RECURSIVE DigitsValue(_)
DigitsValue(s) ==
    IF s = << >> THEN 0
    ELSE 10 * DigitsValue(SubSeq(s, 1, Len(s) - 1)) + DigitVal(s[Len(s)])

\* int(text): surrounding whitespace is dropped, one optional sign, then one
\* or more digits; anything else raises ValueError (ok = FALSE)
PyInt(text) ==
    LET s    == Strip(text)
        neg  == s /= << >> /\ Head(s) = "-"
        body == IF s /= << >> /\ Head(s) \in {"-", "+"} THEN Tail(s) ELSE s
    IN  IF body /= << >> /\ \A i \in 1..Len(body) : IsDigit(body[i])
        THEN [ok |-> TRUE,
              val |-> IF neg THEN 0 - DigitsValue(body) ELSE DigitsValue(body)]
        ELSE [ok |-> FALSE, val |-> 0]

\* str(n) / f"{n}" of a non-negative int
RECURSIVE PyStr(_)
PyStr(n) ==
    IF n < 10 THEN <<Digits[n + 1]>>
    ELSE PyStr(n \div 10) \o <<Digits[(n % 10) + 1]>>

\* [x.strip() for x in text.split(sep) if x.strip()]
RECURSIVE StripAll(_)
StripAll(parts) ==
    IF parts = << >> THEN << >>
    ELSE IF Strip(Head(parts)) /= << >>
         THEN <<Strip(Head(parts))>> \o StripAll(Tail(parts))
         ELSE StripAll(Tail(parts))

SplitList(text, sep) == StripAll(Split(text, sep))

Contains(seq, x) == \E i \in 1..Len(seq) : seq[i] = x


(***************************************************************************)
(* Program constants.                                                      *)
(***************************************************************************)
AUTISTA == <<"autista">>

AT == <<"at">>

\* Conversation states (range(19)); ConversationHandler.END removes the key,
\* which the model writes END and stores as an absent key.
REGISTER_NAME == "REGISTER_NAME"

REGISTER_ROLE == "REGISTER_ROLE"

PROFILE_AGE == "PROFILE_AGE"

PROFILE_GENDER == "PROFILE_GENDER"

PROFILE_CONTACTS == "PROFILE_CONTACTS"

PROFILE_ACADEMIC == "PROFILE_ACADEMIC"

PROFILE_PROFESSIONALS == "PROFILE_PROFESSIONALS"

PROFILE_INTERESTS == "PROFILE_INTERESTS"

PROFILE_TRIGGERS == "PROFILE_TRIGGERS"

PROFILE_COMMUNICATION == "PROFILE_COMMUNICATION"

GROUP_NAME == "GROUP_NAME"

GROUP_THEME == "GROUP_THEME"

GROUP_DESC == "GROUP_DESC"

GROUP_MAX == "GROUP_MAX"

ACTIVITY_GROUP == "ACTIVITY_GROUP"

ACTIVITY_TYPE == "ACTIVITY_TYPE"

ACTIVITY_TITLE == "ACTIVITY_TITLE"

ACTIVITY_DESC == "ACTIVITY_DESC"

ACTIVITY_DURATION == "ACTIVITY_DURATION"

END == "END"

(***************************************************************************)
(* Bounds of the model.                                                    *)
(***************************************************************************)
\* the clock runs from tick 0 to tick MaxClock
MaxClock == 2

\* clock ticks per second: int(timestamp()) is the tick count divided by it
TicksPerSecond == 2

\* a user's groups list holds at most MaxGroupList entries: create_group
\* appends to it without limit, and the model stops creating groups there
MaxGroupList == 2

(***************************************************************************)
(* State.                                                                  *)
(***************************************************************************)
VARIABLES
    users,          \* db.users: user_id -> user record
    groups,         \* db.groups: group_id -> group record
    activities,     \* db.activities: activity_id -> activity record
    conversations,  \* per ConversationHandler: (chat_id, user_id) -> state
    user_data,      \* context.user_data: user_id -> dict
    keyboards,      \* inline keyboards on display: [chat, markup]
    now,            \* datetime.now(), in ticks
    last            \* the update handled last and what the bot did with it

vars == <<users, groups, activities, conversations, user_data, keyboards,
          now, last>>

(***************************************************************************)
(* class Database                                                          *)
(***************************************************************************)
DefaultProfile ==
    [age |-> None,
     gender |-> None,
     emergency_contacts |-> << >>,
     academic_history |-> << >>,
     professionals |-> << >>,
     interests |-> << >>,
     anxiety_triggers |-> << >>,
     communication_preferences |->
         [style |-> <<"direct">>, preferred_topics |-> << >>,
          avoided_topics |-> << >>, notes |-> << >>],
     interaction_history |-> << >>]

\* Database.create_user storing every user as 'autista'
create_user_as_autista(U, user_id, name, role, t) ==
    Put(U, user_id, [user_id |-> user_id, name |-> name, role |-> AUTISTA,
                     groups |-> << >>, created_at |-> t, last_active |-> t,
                     profile |-> DefaultProfile])

\* Database.create_user: the new users dict (the call returns True)
create_user(U, user_id, name, role, t) ==
    LET user_base == [user_id |-> user_id, name |-> name, role |-> role,
                      groups |-> << >>, created_at |-> t, last_active |-> t]
        user_rec  == IF role = AUTISTA
                     THEN Put(user_base, "profile", DefaultProfile)
                     ELSE user_base
    IN  Put(U, user_id, user_rec)

\* a merge in which the values already stored win over the new ones
MergeKeepingOld(d, e) ==
    [x \in (DOMAIN d) \cup (DOMAIN e) |-> IF x \in DOMAIN d THEN d[x] ELSE e[x]]

Merge(d, e) ==
    [x \in (DOMAIN d) \cup (DOMAIN e) |-> IF x \in DOMAIN e THEN e[x] ELSE d[x]]

\* Database.update_user_profile: [ok, users]
update_user_profile(U, user_id, profile_data) ==
    IF ~Has(U, user_id)
    THEN [ok |-> FALSE, users |-> U]
    ELSE LET old == IF Has(U[user_id], "profile")
                    THEN U[user_id].profile ELSE EmptyDict
         IN  [ok |-> TRUE,
              users |-> Put(U, user_id,
                            Put(U[user_id], "profile", Merge(old, profile_data)))]

get_user(U, user_id) == Get(U, user_id, None)

\* Database.create_group answering True without keeping the group
create_group_unsaved(U, G, group_id, name, theme, description, created_by, max_members, t) ==
    [ok |-> TRUE, groups |-> G, users |-> U]

\* Database.create_group: [ok, users, groups]
create_group(U, G, group_id, name, theme, description, created_by, max_members, t) ==
    LET group_rec == [group_id |-> group_id, name |-> name, theme |-> theme,
                      description |-> description, created_by |-> created_by,
                      members |-> <<created_by>>, max_members |-> max_members,
                      created_at |-> t, last_active |-> t,
                      ai_mediator_enabled |-> TRUE]
    IN  [ok |-> TRUE,
         groups |-> Put(G, group_id, group_rec),
         users |-> IF Has(U, created_by)
                   THEN [U EXCEPT ![created_by].groups = Append(@, group_id)]
                   ELSE U]

\* an add_user_to_group that puts the new member at the head of the list
add_user_to_group_prepending(U, G, user_id, group_id) ==
    IF ~Has(G, group_id) \/ ~Has(U, user_id)
    THEN [ok |-> FALSE, users |-> U, groups |-> G]
    ELSE [ok |-> TRUE,
          groups |-> IF ~Contains(G[group_id].members, user_id)
                     THEN [G EXCEPT ![group_id].members = <<user_id>> \o @]
                     ELSE G,
          users |-> IF ~Contains(U[user_id].groups, group_id)
                    THEN [U EXCEPT ![user_id].groups = Append(@, group_id)]
                    ELSE U]

\* an add_user_to_group that looks for the group only: a user without a
\* record becomes a member of the group
add_user_to_group_any_user(U, G, user_id, group_id) ==
    IF ~Has(G, group_id)
    THEN [ok |-> FALSE, users |-> U, groups |-> G]
    ELSE [ok |-> TRUE,
          groups |-> IF ~Contains(G[group_id].members, user_id)
                     THEN [G EXCEPT ![group_id].members = Append(@, user_id)]
                     ELSE G,
          users |-> IF Has(U, user_id) /\ ~Contains(U[user_id].groups, group_id)
                    THEN [U EXCEPT ![user_id].groups = Append(@, group_id)]
                    ELSE U]

\* Database.add_user_to_group appending the user without looking whether the
\* user is already a member
add_user_to_group_appending(U, G, user_id, group_id) ==
    IF ~Has(G, group_id) \/ ~Has(U, user_id)
    THEN [ok |-> FALSE, users |-> U, groups |-> G]
    ELSE [ok     |-> TRUE,
          groups |-> [G EXCEPT ![group_id].members = Append(@, user_id)],
          users  |-> [U EXCEPT ![user_id].groups = Append(@, group_id)]]

\* Database.add_user_to_group: [ok, users, groups]
add_user_to_group(U, G, user_id, group_id) ==
    IF ~Has(G, group_id) \/ ~Has(U, user_id)
    THEN [ok |-> FALSE, users |-> U, groups |-> G]
    ELSE [ok |-> TRUE,
          groups |-> IF ~Contains(G[group_id].members, user_id)
                     THEN [G EXCEPT ![group_id].members = Append(@, user_id)]
                     ELSE G,
          users |-> IF ~Contains(U[user_id].groups, group_id)
                    THEN [U EXCEPT ![user_id].groups = Append(@, group_id)]
                    ELSE U]

\* a create_activity that stores the default duration of its signature
\* whatever duration it is given
create_activity_default_duration(A, group_id, activity_type, title, description, created_by, duration, t) ==
    LET activity_id  == PyStr(t)
        activity_rec == [activity_id |-> activity_id, group_id |-> group_id,
                         type |-> activity_type, title |-> title,
                         description |-> description, created_by |-> created_by,
                         participants |-> << >>, status |-> <<"scheduled">>,
                         scheduled_time |-> t, duration |-> 60,
                         created_at |-> t, ai_guidance_enabled |-> TRUE]
    IN  [activity_id |-> activity_id,
         activities |-> Put(A, activity_id, activity_rec)]

\* Database.create_activity: [activity_id, activities]; the id is
\* str(datetime.now().timestamp()), the tick count as text
create_activity(A, group_id, activity_type, title, description, created_by, duration, t) ==
    LET activity_id  == PyStr(t)
        activity_rec == [activity_id |-> activity_id, group_id |-> group_id,
                         type |-> activity_type, title |-> title,
                         description |-> description, created_by |-> created_by,
                         participants |-> << >>, status |-> <<"scheduled">>,
                         scheduled_time |-> t, duration |-> duration,
                         created_at |-> t, ai_guidance_enabled |-> TRUE]
    IN  [activity_id |-> activity_id,
         activities |-> Put(A, activity_id, activity_rec)]

\* Database.get_user_activities: the set of listed activity ids
get_user_activities(U, A, user_id) ==
    IF ~Has(U, user_id) THEN {}
    ELSE {a \in DOMAIN A : /\ Contains(U[user_id].groups, A[a].group_id)
                           /\ A[a].status = <<"scheduled">>}

\* an update_last_active that creates the record of a user the store does
\* not hold
update_last_active_creating(U, user_id, t) ==
    IF Has(U, user_id)
    THEN [U EXCEPT ![user_id].last_active = t]
    ELSE Put(U, user_id, [user_id |-> user_id, name |-> << >>, role |-> << >>,
                          groups |-> << >>, created_at |-> t, last_active |-> t])

\* Database.update_last_active
update_last_active(U, user_id, t) ==
    IF Has(U, user_id) THEN [U EXCEPT ![user_id].last_active = t] ELSE U

(***************************************************************************)
(* Updates and their dispatch (main(): the handlers in registration order, *)
(* all in one group, so the first handler whose check_update accepts the   *)
(* update handles it and no other handler sees it).                        *)
(***************************************************************************)
Command(name) == [kind |-> "command", command |-> name, text |-> << >>, data |-> << >>]

TextMessage(text) == [kind |-> "text", command |-> "", text |-> text, data |-> << >>]

CallbackQuery(data) == [kind |-> "callback", command |-> "", text |-> << >>, data |-> data]

\* re.match(r'^<word>_', data)
MatchesPattern(data, word) == Len(data) >= 2 /\ data[1] = word /\ data[2] = "_"

ConvHandlers == <<"conv_handler", "group_conv_handler", "activity_conv_handler">>

\* entry_points of a ConversationHandler: the callback taking the update, or None
EntryPoint(h, upd) ==
    CASE h = "conv_handler" /\ upd.kind = "command" /\ upd.command = "start"
             -> "start"
      [] h = "group_conv_handler" /\ upd.kind = "command" /\ upd.command = "criar_grupo"
             -> "create_group_start"
      [] h = "activity_conv_handler" /\ upd.kind = "command"
                                     /\ upd.command = "iniciar_atividade"
             -> "start_activity_command"
      [] OTHER -> None

\* states[state] of a ConversationHandler
StateHandler(h, state, upd) ==
    LET text     == upd.kind = "text"
        callback == upd.kind = "callback"
    IN  CASE h = "conv_handler" /\ state = REGISTER_NAME /\ text -> "process_name"
          [] h = "conv_handler" /\ state = REGISTER_ROLE /\ callback -> "process_role"
          [] h = "conv_handler" /\ state = PROFILE_AGE /\ text -> "process_profile_age"
          [] h = "conv_handler" /\ state = PROFILE_GENDER /\ callback
                 -> "process_profile_gender"
          [] h = "conv_handler" /\ state = PROFILE_CONTACTS /\ text
                 -> "process_profile_contacts"
          [] h = "conv_handler" /\ state = PROFILE_ACADEMIC /\ text
                 -> "process_profile_academic"
          [] h = "conv_handler" /\ state = PROFILE_PROFESSIONALS /\ text
                 -> "process_profile_professionals"
          [] h = "conv_handler" /\ state = PROFILE_INTERESTS /\ text
                 -> "process_profile_interests"
          [] h = "conv_handler" /\ state = PROFILE_TRIGGERS /\ text
                 -> "process_profile_triggers"
          [] h = "conv_handler" /\ state = PROFILE_COMMUNICATION /\ callback
                 -> "process_profile_communication"
          [] h = "group_conv_handler" /\ state = GROUP_NAME /\ text
                 -> "process_group_name"
          [] h = "group_conv_handler" /\ state = GROUP_THEME /\ text
                 -> "process_group_theme"
          [] h = "group_conv_handler" /\ state = GROUP_DESC /\ text
                 -> "process_group_desc"
          [] h = "group_conv_handler" /\ state = GROUP_MAX /\ text
                 -> "process_group_max"
          [] h = "activity_conv_handler" /\ state = ACTIVITY_GROUP /\ callback
                                         /\ MatchesPattern(upd.data, "group")
                 -> "process_activity_group"
          [] h = "activity_conv_handler" /\ state = ACTIVITY_TYPE /\ callback
                                         /\ MatchesPattern(upd.data, "type")
                 -> "process_activity_type"
          [] h = "activity_conv_handler" /\ state = ACTIVITY_TITLE /\ text
                 -> "process_activity_title"
          [] h = "activity_conv_handler" /\ state = ACTIVITY_DESC /\ text
                 -> "process_activity_desc"
          [] h = "activity_conv_handler" /\ state = ACTIVITY_DURATION /\ text
                 -> "process_activity_duration"
          [] OTHER -> None

\* fallbacks of a ConversationHandler: CommandHandler('start', start) in all three
Fallback(h, upd) ==
    IF upd.kind = "command" /\ upd.command = "start" THEN "start" ELSE None

\* the state of the conversation of key (chat_id, user_id), None when there is none
ConvState(h, key) == Get(conversations[h], key, None)

\* ConversationHandler.check_update (allow_reentry is False): without a
\* conversation only the entry points are tried, within one the handlers of
\* the current state and then the fallbacks
CheckUpdate(h, key, upd) ==
    LET state == ConvState(h, key)
    IN  IF state = None
        THEN EntryPoint(h, upd)
        ELSE IF StateHandler(h, state, upd) /= None
             THEN StateHandler(h, state, upd)
             ELSE Fallback(h, upd)

\* the handlers added after the ConversationHandlers
PlainHandler(upd) ==
    CASE upd.kind = "command" /\ upd.command = "ajuda" -> "help_command"
      [] upd.kind = "command" /\ upd.command = "grupos" -> "list_groups"
      [] upd.kind = "command" /\ upd.command = "atividades" -> "list_activities"
      [] upd.kind = "callback" /\ MatchesPattern(upd.data, "join")
             -> "join_group_callback"
      [] upd.kind = "text" -> "handle_message"
      [] OTHER -> None

\* Application.process_update: [conv, callback], the ConversationHandler (or
\* None) and the callback that handle the update; callback None: unhandled
Route(key, upd) ==
    IF \E i \in 1..3 : CheckUpdate(ConvHandlers[i], key, upd) /= None
    THEN LET i == CHOOSE j \in 1..3 :
                      /\ CheckUpdate(ConvHandlers[j], key, upd) /= None
                      /\ \A k \in 1..(j - 1) : CheckUpdate(ConvHandlers[k], key, upd) = None
         IN  [conv |-> ConvHandlers[i], callback |-> CheckUpdate(ConvHandlers[i], key, upd)]
    ELSE [conv |-> None, callback |-> PlainHandler(upd)]

\* a conversation table that keeps the key where it is when the handler
\* returns END
UpdateStateKeeping(h, key, new_state) ==
    IF new_state = END
    THEN conversations
    ELSE [conversations EXCEPT ![h] = Put(@, key, new_state)]

\* ConversationHandler._update_state: END drops the key
UpdateState(h, key, new_state) ==
    [conversations EXCEPT
        ![h] = IF new_state = END THEN Del(@, key) ELSE Put(@, key, new_state)]

\* a rejecting handler that ends the conversation instead (return
\* ConversationHandler.END)
StayEnding(h, key, state) == UpdateState(h, key, END)

\* a handler that rejects its input returns the state it is registered under
\* (return PROFILE_AGE, return GROUP_MAX, return ACTIVITY_DURATION)
Stay(h, key, state) == UpdateState(h, key, state)

\* int(datetime.now().timestamp())
Timestamp(t) == t \div TicksPerSecond

\* datetime.now() reads t: the clock never runs backwards
Reading(t) == t \in now..MaxClock

\* the step handlers of group creation and activity creation that take an
\* answer, with their ConversationHandler
AnswerSteps ==
    [process_group_name     |-> "group_conv_handler",
     process_group_theme    |-> "group_conv_handler",
     process_group_desc     |-> "group_conv_handler",
     process_activity_group |-> "activity_conv_handler",
     process_activity_type  |-> "activity_conv_handler",
     process_activity_title |-> "activity_conv_handler",
     process_activity_desc  |-> "activity_conv_handler"]

\* the replies of the entry points that open a run of the two dialogs, and
\* of the last steps that end one
RunOpened == {"ask_group_name", "ask_activity_group"}
RunClosed == {"group_created", "group_error", "activity_created", "activity_error"}

\* history of the runs of group creation and activity creation: for every
\* open conversation (handler, chat, user) of the two, the answers its step
\* handlers have taken since the entry point opened it, in the order taken
Track(runs, u, c, upd, callback, reply) ==
    LET h == Route(<<c, u>>, upd).conv
        k == <<h, c, u>>
        v == IF upd.kind = "text" THEN upd.text ELSE upd.data
    IN  IF reply \in RunOpened
        THEN Put(runs, k, << >>)
        ELSE IF callback \in DOMAIN AnswerSteps
        THEN Put(runs, k, Append(Get(runs, k, << >>), [step |-> callback, answer |-> v]))
        ELSE IF reply \in RunClosed
                \/ (callback = "start" /\ h \in {"group_conv_handler", "activity_conv_handler"})
        THEN Del(runs, k)
        ELSE runs

\* what the bot did with the update handled last, and the history of the runs
Handled(u, c, upd, callback, reply, commit) ==
    [user |-> u, chat |-> c, kind |-> upd.kind, command |-> upd.command,
     text |-> upd.text, data |-> upd.data, callback |-> callback, reply |-> reply,
     commit |-> commit, mediated |-> FALSE, alert |-> FALSE,
     runs |-> Track(last.runs, u, c, upd, callback, reply)]

\* InlineKeyboardMarkup sent to chat c
Keyboard(c, markup) == [chat |-> c, markup |-> markup]

\* a callback query from chat c with the data of a button of keyboard m; the
\* keyboards on display are what the dialogs quantify m over
Pressed(c, m, data) == m.chat = c /\ data \in m.markup

(***************************************************************************)
(* Registration and profile (conv_handler).                                *)
(***************************************************************************)
RoleKeyboard == {AUTISTA, AT}

GenderKeyboard == {<<"masculino">>, <<"feminino">>, <<"nao-binario">>, <<"nao-informado">>}

CommunicationKeyboard == {<<"direta">>, <<"detalhada">>}

\* a store of the answers shared by the users (one dict, as chat_data is, in
\* place of the user_data of each user)
StoreShared(u, key, value) ==
    [x \in (DOMAIN user_data) \cup {u} |->
        Put(Get(user_data, x, EmptyDict), key, value)]

\* context.user_data[key] = value
Store(u, key, value) ==
    Put(user_data, u, Put(Get(user_data, u, EmptyDict), key, value))

\* /start, as entry point or fallback of the ConversationHandler that took it
Start(u, c, t) ==
    LET upd == Command("start")
        r   == Route(<<c, u>>, upd)
    IN  /\ r.callback = "start"
        /\ Reading(t)
        /\ now' = t
        /\ users' = update_last_active(users, u, t)
        /\ IF Has(users, u)
           THEN /\ conversations' = UpdateState(r.conv, <<c, u>>, END)
                /\ last' = Handled(u, c, upd, "start", "already_registered", "none")
           ELSE /\ conversations' = UpdateState(r.conv, <<c, u>>, REGISTER_NAME)
                /\ last' = Handled(u, c, upd, "start", "ask_name", "none")
        /\ UNCHANGED <<groups, activities, user_data, keyboards>>

\* a process_name that writes the user to the store as soon as it has the
\* name, the role still unknown
ProcessNameSaving(u, c, text) ==
    LET upd == TextMessage(text)
        r   == Route(<<c, u>>, upd)
    IN  /\ r.callback = "process_name"
        /\ user_data' = Store(u, "name", text)
        /\ users' = create_user(users, u, text, AT, now)
        /\ keyboards' = keyboards \cup {Keyboard(c, RoleKeyboard)}
        /\ conversations' = UpdateState(r.conv, <<c, u>>, REGISTER_ROLE)
        /\ last' = Handled(u, c, upd, "process_name", "ask_role", "none")
        /\ UNCHANGED <<groups, activities, now>>

ProcessName(u, c, text) ==
    LET upd == TextMessage(text)
        r   == Route(<<c, u>>, upd)
    IN  /\ r.callback = "process_name"
        /\ user_data' = Store(u, "name", text)
        /\ keyboards' = keyboards \cup {Keyboard(c, RoleKeyboard)}
        /\ conversations' = UpdateState(r.conv, <<c, u>>, REGISTER_ROLE)
        /\ last' = Handled(u, c, upd, "process_name", "ask_role", "none")
        /\ UNCHANGED <<users, groups, activities, now>>

\* process_role; success is what db.create_user returns: False when the write
\* raised (its except branch), the store then being as before
ProcessRole(u, c, m, data, t, success) ==
    LET upd  == CallbackQuery(data)
        r    == Route(<<c, u>>, upd)
        role == data
        name == user_data[u]["name"]
    IN  /\ Pressed(c, m, data)
        /\ r.callback = "process_role"
        /\ user_data' = Store(u, "role", role)
        /\ Reading(t)
        /\ now' = t
        /\ users' = IF success THEN create_user(users, u, name, role, t) ELSE users
        /\ keyboards' = keyboards \ {m}
        /\ IF ~success
           THEN /\ conversations' = UpdateState(r.conv, <<c, u>>, END)
                /\ last' = Handled(u, c, upd, "process_role", "register_error", "none")
           ELSE IF role = AUTISTA
           THEN /\ conversations' = UpdateState(r.conv, <<c, u>>, PROFILE_AGE)
                /\ last' = Handled(u, c, upd, "process_role", "ask_age", "create_user")
           ELSE /\ conversations' = UpdateState(r.conv, <<c, u>>, END)
                /\ last' = Handled(u, c, upd, "process_role", "registered_at", "create_user")
        /\ UNCHANGED <<groups, activities>>

ProcessProfileAge(u, c, text) ==
    LET upd == TextMessage(text)
        r   == Route(<<c, u>>, upd)
        age == PyInt(text)
    IN  /\ r.callback = "process_profile_age"
        /\ IF ~age.ok
           THEN /\ conversations' = Stay(r.conv, <<c, u>>, PROFILE_AGE)
                /\ last' = Handled(u, c, upd, "process_profile_age", "age_not_a_number", "none")
                /\ UNCHANGED <<user_data, keyboards>>
           ELSE IF age.val < 5 \/ age.val > 100
           THEN /\ conversations' = Stay(r.conv, <<c, u>>, PROFILE_AGE)
                /\ last' = Handled(u, c, upd, "process_profile_age", "age_out_of_range", "none")
                /\ UNCHANGED <<user_data, keyboards>>
           ELSE /\ user_data' = Store(u, "profile_age", age.val)
                /\ keyboards' = keyboards \cup {Keyboard(c, GenderKeyboard)}
                /\ conversations' = UpdateState(r.conv, <<c, u>>, PROFILE_GENDER)
                /\ last' = Handled(u, c, upd, "process_profile_age", "ask_gender", "none")
        /\ UNCHANGED <<users, groups, activities, now>>

ProcessProfileGender(u, c, m, data) ==
    LET upd == CallbackQuery(data)
        r   == Route(<<c, u>>, upd)
    IN  /\ Pressed(c, m, data)
        /\ r.callback = "process_profile_gender"
        /\ user_data' = Store(u, "profile_gender", data)
        /\ keyboards' = keyboards \ {m}
        /\ conversations' = UpdateState(r.conv, <<c, u>>, PROFILE_CONTACTS)
        /\ last' = Handled(u, c, upd, "process_profile_gender", "ask_contacts", "none")
        /\ UNCHANGED <<users, groups, activities, now>>

ProcessProfileContacts(u, c, text) ==
    LET upd == TextMessage(text)
        r   == Route(<<c, u>>, upd)
    IN  /\ r.callback = "process_profile_contacts"
        /\ user_data' = Store(u, "profile_contacts", SplitList(text, "\n"))
        /\ conversations' = UpdateState(r.conv, <<c, u>>, PROFILE_ACADEMIC)
        /\ last' = Handled(u, c, upd, "process_profile_contacts", "ask_academic", "none")
        /\ UNCHANGED <<users, groups, activities, keyboards, now>>

ProcessProfileAcademic(u, c, text) ==
    LET upd == TextMessage(text)
        r   == Route(<<c, u>>, upd)
    IN  /\ r.callback = "process_profile_academic"
        /\ user_data' = Store(u, "profile_academic", text)
        /\ conversations' = UpdateState(r.conv, <<c, u>>, PROFILE_PROFESSIONALS)
        /\ last' = Handled(u, c, upd, "process_profile_academic", "ask_professionals", "none")
        /\ UNCHANGED <<users, groups, activities, keyboards, now>>

ProcessProfileProfessionals(u, c, text) ==
    LET upd == TextMessage(text)
        r   == Route(<<c, u>>, upd)
    IN  /\ r.callback = "process_profile_professionals"
        /\ user_data' = Store(u, "profile_professionals", SplitList(text, "\n"))
        /\ conversations' = UpdateState(r.conv, <<c, u>>, PROFILE_INTERESTS)
        /\ last' = Handled(u, c, upd, "process_profile_professionals", "ask_interests", "none")
        /\ UNCHANGED <<users, groups, activities, keyboards, now>>

ProcessProfileInterests(u, c, text) ==
    LET upd == TextMessage(text)
        r   == Route(<<c, u>>, upd)
    IN  /\ r.callback = "process_profile_interests"
        /\ user_data' = Store(u, "profile_interests", SplitList(text, ","))
        /\ conversations' = UpdateState(r.conv, <<c, u>>, PROFILE_TRIGGERS)
        /\ last' = Handled(u, c, upd, "process_profile_interests", "ask_triggers", "none")
        /\ UNCHANGED <<users, groups, activities, keyboards, now>>

ProcessProfileTriggers(u, c, text) ==
    LET upd == TextMessage(text)
        r   == Route(<<c, u>>, upd)
    IN  /\ r.callback = "process_profile_triggers"
        /\ user_data' = Store(u, "profile_triggers", SplitList(text, ","))
        /\ keyboards' = keyboards \cup {Keyboard(c, CommunicationKeyboard)}
        /\ conversations' = UpdateState(r.conv, <<c, u>>, PROFILE_COMMUNICATION)
        /\ last' = Handled(u, c, upd, "process_profile_triggers", "ask_communication", "none")
        /\ UNCHANGED <<users, groups, activities, now>>

\* process_profile_communication; success is FALSE when the write of
\* db.update_user_profile raised
ProcessProfileCommunication(u, c, m, data, success) ==
    LET upd  == CallbackQuery(data)
        r    == Route(<<c, u>>, upd)
        ud   == Store(u, "profile_communication", data)[u]
        profile_data ==
            [age |-> Get(ud, "profile_age", None),
             gender |-> Get(ud, "profile_gender", None),
             emergency_contacts |-> Get(ud, "profile_contacts", << >>),
             academic_history |-> Get(ud, "profile_academic", << >>),
             professionals |-> Get(ud, "profile_professionals", << >>),
             interests |-> Get(ud, "profile_interests", << >>),
             anxiety_triggers |-> Get(ud, "profile_triggers", << >>),
             communication_preferences |->
                 [style |-> Get(ud, "profile_communication", <<"direta">>)]]
        res  == IF success
                THEN update_user_profile(users, u, profile_data)
                ELSE [ok |-> FALSE, users |-> users]
    IN  /\ Pressed(c, m, data)
        /\ r.callback = "process_profile_communication"
        /\ user_data' = Store(u, "profile_communication", data)
        /\ users' = res.users
        /\ keyboards' = keyboards \ {m}
        /\ conversations' = UpdateState(r.conv, <<c, u>>, END)
        /\ last' = Handled(u, c, upd, "process_profile_communication",
                           IF res.ok THEN "profile_saved" ELSE "profile_error",
                           IF res.ok THEN "update_user_profile" ELSE "none")
        /\ UNCHANGED <<groups, activities, now>>

(***************************************************************************)
(* Informational commands and joining a group.                             *)
(***************************************************************************)
\* a private chat has the id of its user, group chats have negative ids
IsPrivate(c) == c > 0

HelpCommand(u, c, t) ==
    LET upd == Command("ajuda")
        r   == Route(<<c, u>>, upd)
    IN  /\ r.callback = "help_command"
        /\ Reading(t)
        /\ now' = t
        /\ users' = update_last_active(users, u, t)
        /\ last' = Handled(u, c, upd, "help_command",
                           IF ~Has(users, u) THEN "register_first"
                           ELSE IF users[u].role = AT THEN "help_at" ELSE "help",
                           "none")
        /\ UNCHANGED <<groups, activities, conversations, user_data, keyboards>>

\* callback_data=f"join_{group['group_id']}"
JoinData(group_id) == <<"join", "_">> \o PyStr(group_id)

\* the join buttons list_groups renders: one per group with a free place
JoinKeyboard(G) ==
    {JoinData(g) : g \in {x \in DOMAIN G : Len(G[x].members) < G[x].max_members}}

ListGroups(u, c, t) ==
    LET upd == Command("grupos")
        r   == Route(<<c, u>>, upd)
    IN  /\ r.callback = "list_groups"
        /\ Reading(t)
        /\ now' = t
        /\ users' = update_last_active(users, u, t)
        /\ IF DOMAIN groups = {}
           THEN /\ last' = Handled(u, c, upd, "list_groups", "no_groups", "none")
                /\ UNCHANGED keyboards
           ELSE /\ last' = Handled(u, c, upd, "list_groups", "groups", "none")
                /\ keyboards' = IF JoinKeyboard(groups) /= {}
                                THEN keyboards \cup {Keyboard(c, JoinKeyboard(groups))}
                                ELSE keyboards
        /\ UNCHANGED <<groups, activities, conversations, user_data>>

\* int(query.data.split('_')[1])
DataId(data) == PyInt(Split(data, "_")[2]).val

JoinGroupCallback(u, c, m, data) ==
    LET upd      == CallbackQuery(data)
        r        == Route(<<c, u>>, upd)
        group_id == DataId(data)
        res      == add_user_to_group(users, groups, u, group_id)
    IN  /\ Pressed(c, m, data)
        /\ r.callback = "join_group_callback"
        /\ users' = res.users
        /\ groups' = res.groups
        /\ keyboards' = keyboards \ {m}
        /\ last' = Handled(u, c, upd, "join_group_callback",
                           IF res.ok THEN "joined" ELSE "join_error",
                           IF res.ok THEN "add_user_to_group" ELSE "none")
        /\ UNCHANGED <<activities, conversations, user_data, now>>

ListActivities(u, c, t) ==
    LET upd == Command("atividades")
        r   == Route(<<c, u>>, upd)
    IN  /\ r.callback = "list_activities"
        /\ Reading(t)
        /\ now' = t
        /\ users' = update_last_active(users, u, t)
        /\ last' = Handled(u, c, upd, "list_activities",
                           IF get_user_activities(users, activities, u) = {}
                           THEN "no_activities" ELSE "activities",
                           "none")
        /\ UNCHANGED <<groups, activities, conversations, user_data, keyboards>>

(***************************************************************************)
(* Group creation (group_conv_handler).                                    *)
(***************************************************************************)
\* create_group_start opening the dialog for whoever sends the command
CreateGroupStartUngated(u, c, t) ==
    LET upd == Command("criar_grupo")
        r   == Route(<<c, u>>, upd)
    IN  /\ r.callback = "create_group_start"
        /\ Reading(t)
        /\ now' = t
        /\ users' = update_last_active(users, u, t)
        /\ conversations' = UpdateState(r.conv, <<c, u>>, GROUP_NAME)
        /\ last' = Handled(u, c, upd, "create_group_start", "ask_group_name", "none")
        /\ UNCHANGED <<groups, activities, user_data, keyboards>>

\* create_group_start
CreateGroupStart(u, c, t) ==
    LET upd == Command("criar_grupo")
        r   == Route(<<c, u>>, upd)
    IN  /\ r.callback = "create_group_start"
        /\ Reading(t)
        /\ now' = t
        /\ users' = update_last_active(users, u, t)
        /\ IF ~Has(users, u)
           THEN /\ conversations' = UpdateState(r.conv, <<c, u>>, END)
                /\ last' = Handled(u, c, upd, "create_group_start", "register_first", "none")
           ELSE IF users[u].role /= AT
           THEN /\ conversations' = UpdateState(r.conv, <<c, u>>, END)
                /\ last' = Handled(u, c, upd, "create_group_start", "at_only", "none")
           ELSE /\ conversations' = UpdateState(r.conv, <<c, u>>, GROUP_NAME)
                /\ last' = Handled(u, c, upd, "create_group_start", "ask_group_name", "none")
        /\ UNCHANGED <<groups, activities, user_data, keyboards>>

ProcessGroupName(u, c, text) ==
    LET upd == TextMessage(text)
        r   == Route(<<c, u>>, upd)
    IN  /\ r.callback = "process_group_name"
        /\ user_data' = Store(u, "group_name", text)
        /\ conversations' = UpdateState(r.conv, <<c, u>>, GROUP_THEME)
        /\ last' = Handled(u, c, upd, "process_group_name", "ask_group_theme", "none")
        /\ UNCHANGED <<users, groups, activities, keyboards, now>>

ProcessGroupTheme(u, c, text) ==
    LET upd == TextMessage(text)
        r   == Route(<<c, u>>, upd)
    IN  /\ r.callback = "process_group_theme"
        /\ user_data' = Store(u, "group_theme", text)
        /\ conversations' = UpdateState(r.conv, <<c, u>>, GROUP_DESC)
        /\ last' = Handled(u, c, upd, "process_group_theme", "ask_group_desc", "none")
        /\ UNCHANGED <<users, groups, activities, keyboards, now>>

ProcessGroupDesc(u, c, text) ==
    LET upd == TextMessage(text)
        r   == Route(<<c, u>>, upd)
    IN  /\ r.callback = "process_group_desc"
        /\ user_data' = Store(u, "group_desc", text)
        /\ conversations' = UpdateState(r.conv, <<c, u>>, GROUP_MAX)
        /\ last' = Handled(u, c, upd, "process_group_desc", "ask_group_max", "none")
        /\ UNCHANGED <<users, groups, activities, keyboards, now>>

\* process_group_max; success is FALSE when the write of db.create_group raised
ProcessGroupMax(u, c, text, t, success) ==
    LET upd         == TextMessage(text)
        r           == Route(<<c, u>>, upd)
        max_members == PyInt(text)
    IN  /\ r.callback = "process_group_max"
        /\ IF ~max_members.ok
           THEN /\ conversations' = Stay(r.conv, <<c, u>>, GROUP_MAX)
                /\ last' = Handled(u, c, upd, "process_group_max", "max_not_a_number", "none")
                /\ UNCHANGED <<users, groups, user_data, now>>
           ELSE IF max_members.val < 2 \/ max_members.val > 50
           THEN /\ conversations' = Stay(r.conv, <<c, u>>, GROUP_MAX)
                /\ last' = Handled(u, c, upd, "process_group_max", "max_out_of_range", "none")
                /\ UNCHANGED <<users, groups, user_data, now>>
           ELSE /\ Has(users, u) => Len(users[u].groups) < MaxGroupList
                /\ user_data' = Store(u, "group_max", max_members.val)
                /\ Reading(t)
                /\ LET ud  == user_data'[u]
                       res == IF success
                              THEN create_group(users, groups, Timestamp(t),
                                                ud["group_name"], ud["group_theme"],
                                                ud["group_desc"], u, ud["group_max"], t)
                              ELSE [ok |-> FALSE, groups |-> groups, users |-> users]
                   IN  /\ now' = t
                       /\ users' = res.users
                       /\ groups' = res.groups
                       /\ last' = Handled(u, c, upd, "process_group_max",
                                          IF res.ok THEN "group_created" ELSE "group_error",
                                          IF res.ok THEN "create_group" ELSE "none")
                /\ conversations' = UpdateState(r.conv, <<c, u>>, END)
        /\ UNCHANGED <<activities, keyboards>>

(***************************************************************************)
(* Activity creation (activity_conv_handler).                              *)
(***************************************************************************)
\* the elements of a set of ints in ascending order: the order of insertion
\* into db.groups, whose keys are read off a clock that never runs backwards
RECURSIVE Ascending(_)
Ascending(S) ==
    IF S = {} THEN << >>
    ELSE LET x == CHOOSE y \in S : \A z \in S : y <= z
         IN  <<x>> \o Ascending(S \ {x})

\* [g for g in db.get_all_groups() if g.get('created_by') == user_id], of
\* which the handlers read the group_id and the name
AtGroups(G, user_id) ==
    LET ids == Ascending({g \in DOMAIN G : G[g].created_by = user_id})
    IN  [i \in 1..Len(ids) |-> [group_id |-> ids[i], name |-> G[ids[i]].name]]

\* callback_data=f"group_{group['group_id']}"
GroupData(group_id) == <<"group", "_">> \o PyStr(group_id)

TypeKeyboard ==
    {<<"type", "_", "discussao">>, <<"type", "_", "projeto">>,
     <<"type", "_", "jogo">>, <<"type", "_", "compartilhamento">>}

\* type_names.get(activity_type, activity_type)
TypeName(activity_type) ==
    CASE activity_type = <<"discussao">> -> <<"Discussao Tematica">>
      [] activity_type = <<"projeto">> -> <<"Projeto Colaborativo">>
      [] activity_type = <<"jogo">> -> <<"Jogo Social">>
      [] activity_type = <<"compartilhamento">> -> <<"Compartilhamento de Interesses">>
      [] OTHER -> activity_type

StartActivityCommand(u, c, t) ==
    LET upd       == Command("iniciar_atividade")
        r         == Route(<<c, u>>, upd)
        at_groups == AtGroups(groups, u)
    IN  /\ r.callback = "start_activity_command"
        /\ Reading(t)
        /\ now' = t
        /\ users' = update_last_active(users, u, t)
        /\ IF ~Has(users, u)
           THEN /\ conversations' = UpdateState(r.conv, <<c, u>>, END)
                /\ last' = Handled(u, c, upd, "start_activity_command", "register_first", "none")
                /\ UNCHANGED <<user_data, keyboards>>
           ELSE IF users[u].role /= AT
           THEN /\ conversations' = UpdateState(r.conv, <<c, u>>, END)
                /\ last' = Handled(u, c, upd, "start_activity_command", "at_only", "none")
                /\ UNCHANGED <<user_data, keyboards>>
           ELSE IF at_groups = << >>
           THEN /\ conversations' = UpdateState(r.conv, <<c, u>>, END)
                /\ last' = Handled(u, c, upd, "start_activity_command", "no_at_groups", "none")
                /\ UNCHANGED <<user_data, keyboards>>
           ELSE /\ user_data' = Store(u, "at_groups", at_groups)
                /\ keyboards' = keyboards \cup
                       {Keyboard(c, {GroupData(at_groups[i].group_id) :
                                         i \in 1..Len(at_groups)})}
                /\ conversations' = UpdateState(r.conv, <<c, u>>, ACTIVITY_GROUP)
                /\ last' = Handled(u, c, upd, "start_activity_command",
                                   "ask_activity_group", "none")
        /\ UNCHANGED <<groups, activities>>

\* next((g['name'] for g in at_groups if g['group_id'] == group_id), "Grupo")
GroupNameOf(at_groups, group_id) ==
    IF \E i \in 1..Len(at_groups) : at_groups[i].group_id = group_id
    THEN at_groups[CHOOSE i \in 1..Len(at_groups) :
                       /\ at_groups[i].group_id = group_id
                       /\ \A k \in 1..(i - 1) : at_groups[k].group_id /= group_id].name
    ELSE <<"Grupo">>

ProcessActivityGroup(u, c, m, data) ==
    LET upd      == CallbackQuery(data)
        r        == Route(<<c, u>>, upd)
        group_id == DataId(data)
        ud1      == Put(user_data[u], "activity_group_id", group_id)
        ud2      == Put(ud1, "activity_group_name", GroupNameOf(ud1["at_groups"], group_id))
    IN  /\ Pressed(c, m, data)
        /\ r.callback = "process_activity_group"
        /\ user_data' = Put(user_data, u, ud2)
        /\ keyboards' = (keyboards \ {m}) \cup {Keyboard(c, TypeKeyboard)}
        /\ conversations' = UpdateState(r.conv, <<c, u>>, ACTIVITY_TYPE)
        /\ last' = Handled(u, c, upd, "process_activity_group", "ask_activity_type", "none")
        /\ UNCHANGED <<users, groups, activities, now>>

ProcessActivityType(u, c, m, data) ==
    LET upd           == CallbackQuery(data)
        r             == Route(<<c, u>>, upd)
        activity_type == Split(data, "_")[2]
        ud1           == Put(user_data[u], "activity_type", activity_type)
        ud2           == Put(ud1, "activity_type_name", TypeName(activity_type))
    IN  /\ Pressed(c, m, data)
        /\ r.callback = "process_activity_type"
        /\ user_data' = Put(user_data, u, ud2)
        /\ keyboards' = keyboards \ {m}
        /\ conversations' = UpdateState(r.conv, <<c, u>>, ACTIVITY_TITLE)
        /\ last' = Handled(u, c, upd, "process_activity_type", "ask_activity_title", "none")
        /\ UNCHANGED <<users, groups, activities, now>>

ProcessActivityTitle(u, c, text) ==
    LET upd == TextMessage(text)
        r   == Route(<<c, u>>, upd)
    IN  /\ r.callback = "process_activity_title"
        /\ user_data' = Store(u, "activity_title", text)
        /\ conversations' = UpdateState(r.conv, <<c, u>>, ACTIVITY_DESC)
        /\ last' = Handled(u, c, upd, "process_activity_title", "ask_activity_desc", "none")
        /\ UNCHANGED <<users, groups, activities, keyboards, now>>

ProcessActivityDesc(u, c, text) ==
    LET upd == TextMessage(text)
        r   == Route(<<c, u>>, upd)
    IN  /\ r.callback = "process_activity_desc"
        /\ user_data' = Store(u, "activity_desc", text)
        /\ conversations' = UpdateState(r.conv, <<c, u>>, ACTIVITY_DURATION)
        /\ last' = Handled(u, c, upd, "process_activity_desc", "ask_activity_duration", "none")
        /\ UNCHANGED <<users, groups, activities, keyboards, now>>

\* process_activity_duration; success is FALSE when the write of
\* db.create_activity raised (it returns None)
ProcessActivityDuration(u, c, text, t, success) ==
    LET upd      == TextMessage(text)
        r        == Route(<<c, u>>, upd)
        duration == PyInt(text)
    IN  /\ r.callback = "process_activity_duration"
        /\ IF ~duration.ok
           THEN /\ conversations' = Stay(r.conv, <<c, u>>, ACTIVITY_DURATION)
                /\ last' = Handled(u, c, upd, "process_activity_duration",
                                   "duration_not_a_number", "none")
                /\ UNCHANGED <<activities, user_data, now>>
           ELSE IF duration.val < 5 \/ duration.val > 180
           THEN /\ conversations' = Stay(r.conv, <<c, u>>, ACTIVITY_DURATION)
                /\ last' = Handled(u, c, upd, "process_activity_duration",
                                   "duration_out_of_range", "none")
                /\ UNCHANGED <<activities, user_data, now>>
           ELSE /\ user_data' = Store(u, "activity_duration", duration.val)
                /\ Reading(t) /\ t > now
                /\ LET ud  == user_data'[u]
                       res == create_activity(activities, ud["activity_group_id"],
                                              ud["activity_type"], ud["activity_title"],
                                              ud["activity_desc"], u,
                                              ud["activity_duration"], t)
                   IN  /\ now' = t
                       /\ activities' = IF success THEN res.activities ELSE activities
                /\ conversations' = UpdateState(r.conv, <<c, u>>, END)
                /\ last' = Handled(u, c, upd, "process_activity_duration",
                                   IF success THEN "activity_created" ELSE "activity_error",
                                   IF success THEN "create_activity" ELSE "none")
        /\ UNCHANGED <<users, groups, keyboards>>

(***************************************************************************)
(* Free text outside the dialogs, and updates no handler accepts.          *)
(***************************************************************************)
\* LLMIntegration.provide_individual_support: what it may return, one of its
\* canned responses (random.choice) with alert_needed False
provide_individual_support ==
    {[ai_response |-> <<"canned", PyStr(i)>>, alert_needed |-> FALSE] : i \in 1..5}

\* a handle_message that acts on alert_needed: it closes the conversations of
\* the sender
HandleMessageEscalating(u, c, text, ai_response, alert_needed) ==
    LET upd == TextMessage(text)
        r   == Route(<<c, u>>, upd)
    IN  /\ r.callback = "handle_message"
        /\ IF ~Has(users, u)
           THEN /\ last' = Handled(u, c, upd, "handle_message", "not_registered", "none")
                /\ UNCHANGED conversations
           ELSE IF IsPrivate(c)
           THEN /\ last' = [Handled(u, c, upd, "handle_message", "ai_response", "none")
                                EXCEPT !.mediated = TRUE, !.alert = alert_needed]
                /\ conversations' =
                        IF alert_needed
                        THEN [h \in DOMAIN conversations |->
                                 Del(conversations[h], <<c, u>>)]
                        ELSE conversations
           ELSE /\ last' = Handled(u, c, upd, "handle_message", "no_reply", "none")
                /\ UNCHANGED conversations
        /\ UNCHANGED <<users, groups, activities, user_data, keyboards, now>>

\* handle_message; ai_response and alert_needed are what
\* llm.provide_individual_support returned: the handler replies when the
\* response is not empty and does not read alert_needed
HandleMessage(u, c, text, ai_response, alert_needed) ==
    LET upd == TextMessage(text)
        r   == Route(<<c, u>>, upd)
    IN  /\ r.callback = "handle_message"
        /\ IF ~Has(users, u)
           THEN last' = Handled(u, c, upd, "handle_message", "not_registered", "none")
           ELSE IF IsPrivate(c)
           THEN last' = [Handled(u, c, upd, "handle_message",
                                 IF ai_response /= << >> THEN "ai_response" ELSE "no_reply",
                                 "none")
                            EXCEPT !.mediated = TRUE, !.alert = alert_needed]
           ELSE last' = Handled(u, c, upd, "handle_message", "no_reply", "none")
        /\ UNCHANGED <<users, groups, activities, conversations, user_data, keyboards, now>>

\* an update that no handler accepts is dropped by Application.process_update
Unhandled(u, c, upd) ==
    /\ Route(<<c, u>>, upd).callback = None
    /\ last' = Handled(u, c, upd, None, "no_reply", "none")
    /\ UNCHANGED <<users, groups, activities, conversations, user_data, keyboards, now>>

(***************************************************************************)
(* The bot after main() has built the Application: an empty Database, no   *)
(* conversation, no user_data, nothing on display.                         *)
(***************************************************************************)
Init ==
    /\ users = EmptyDict
    /\ groups = EmptyDict
    /\ activities = EmptyDict
    /\ conversations = [h \in {ConvHandlers[i] : i \in 1..3} |-> EmptyDict]
    /\ user_data = EmptyDict
    /\ keyboards = {}
    /\ now = 0
    /\ last = [user |-> 0, chat |-> 0, kind |-> "none", command |-> "",
               text |-> << >>, data |-> << >>, callback |-> None, reply |-> "none",
               commit |-> "none", mediated |-> FALSE, alert |-> FALSE,
               runs |-> EmptyDict]

\* the commands a user may send; /perfil is advertised by help_command and
\* has no handler
Commands == {"start", "ajuda", "grupos", "atividades", "criar_grupo",
             "iniciar_atividade", "perfil"}

\* the buttons of keyboard m the users press: every join_ and group_ button,
\* and of the fixed keyboards the buttons of CS
Presses(m, CS) ==
    {data \in m.markup :
        data \in CS \/ MatchesPattern(data, "join") \/ MatchesPattern(data, "group")}

(***************************************************************************)
(* The updates user u may send in chat c, by the dialog they belong to: a  *)
(* command, a text of TS (of NS at the numeric steps) or a press of a      *)
(* button on display; the handler's clock reading is one of CK and the     *)
(* outcome of its write to the store one of WS.                            *)
(***************************************************************************)
Registration(u, c, TS, CS, CK, WS) ==
    \/ \E t \in CK : Start(u, c, t)
    \/ \E text \in TS : ProcessName(u, c, text)
    \/ \E m \in keyboards : \E data \in Presses(m, CS) : \E t \in CK :
          \E success \in WS : ProcessRole(u, c, m, data, t, success)

Profile(u, c, TS, NS, CS, WS) ==
    \/ \E text \in NS : ProcessProfileAge(u, c, text)
    \/ \E text \in TS :
          \/ ProcessProfileContacts(u, c, text)
          \/ ProcessProfileAcademic(u, c, text)
          \/ ProcessProfileProfessionals(u, c, text)
          \/ ProcessProfileInterests(u, c, text)
          \/ ProcessProfileTriggers(u, c, text)
    \/ \E m \in keyboards : \E data \in Presses(m, CS) :
          \/ ProcessProfileGender(u, c, m, data)
          \/ \E success \in WS : ProcessProfileCommunication(u, c, m, data, success)

GroupCreation(u, c, TS, NS, CK, WS) ==
    \/ \E t \in CK : CreateGroupStart(u, c, t)
    \/ \E text \in TS :
          \/ ProcessGroupName(u, c, text)
          \/ ProcessGroupTheme(u, c, text)
          \/ ProcessGroupDesc(u, c, text)
    \/ \E text \in NS : \E t \in CK : \E success \in WS :
          ProcessGroupMax(u, c, text, t, success)

ActivityCreation(u, c, TS, NS, CS, CK, WS) ==
    \/ \E t \in CK : StartActivityCommand(u, c, t)
    \/ \E m \in keyboards : \E data \in Presses(m, CS) :
          \/ ProcessActivityGroup(u, c, m, data)
          \/ ProcessActivityType(u, c, m, data)
    \/ \E text \in TS :
          \/ ProcessActivityTitle(u, c, text)
          \/ ProcessActivityDesc(u, c, text)
    \/ \E text \in NS : \E t \in CK : \E success \in WS :
          ProcessActivityDuration(u, c, text, t, success)

Joining(u, c, CS, CK) ==
    \/ \E t \in CK : ListGroups(u, c, t)
    \/ \E m \in keyboards : \E data \in Presses(m, CS) : JoinGroupCallback(u, c, m, data)

Information(u, c, CK) ==
    \/ \E t \in CK : HelpCommand(u, c, t)
    \/ \E t \in CK : ListActivities(u, c, t)

Messages(u, c, TS, CS) ==
    \/ \E text \in TS : \E a \in provide_individual_support :
          HandleMessage(u, c, text, a.ai_response, a.alert_needed)
    \/ \E m \in keyboards : \E data \in Presses(m, CS) :
          Pressed(c, m, data) /\ Unhandled(u, c, CallbackQuery(data))
    \/ \E name \in Commands : Unhandled(u, c, Command(name))

(***************************************************************************)
(* What the users send.                                                    *)
(***************************************************************************)
\* the free text the users send
Texts == {<<"Ana">>}

\* what the users send at the numeric steps: no number, a number out of every
\* range, a number in every range
Numbers == {<<"abc">>, <<"2", "0", "0">>, <<"3", "0">>}

\* what the users send at the max-members step when the group is to be small
SmallNumbers == {<<"abc">>, <<"2">>}

\* the buttons of the fixed keyboards the users press
Choices == {AUTISTA, AT, <<"feminino">>, <<"direta">>, <<"type", "_", "jogo">>}

\* every clock reading
AnyTime == 0..MaxClock

\* the outcomes of the writes to the store: every write succeeds, or a write
\* may raise and be reported as failed
Written == {TRUE}
MayFail == {TRUE, FALSE}

(***************************************************************************)
(* Spec: one user in the private chat, every handler, the clock free.      *)
(***************************************************************************)
Next ==
    \E u \in {1} : \E c \in {u} :
        \/ Registration(u, c, Texts, Choices, AnyTime, Written)
        \/ Profile(u, c, Texts, Numbers, Choices, Written)
        \/ GroupCreation(u, c, Texts, Numbers, AnyTime, Written)
        \/ ActivityCreation(u, c, Texts, Numbers, Choices, AnyTime, Written)
        \/ Joining(u, c, Choices, AnyTime)
        \/ Information(u, c, AnyTime)
        \/ Messages(u, c, Texts, Choices)

Spec == Init /\ [][Next]_vars

(***************************************************************************)
(* SpecMembers: three users in their private chats who register and join   *)
(* groups, user 1 creating them, all within one tick of the clock.         *)
(***************************************************************************)
NextMembers ==
    \E u \in {1, 2, 3} : \E c \in {u} :
        \/ Registration(u, c, Texts, Choices, {now}, Written)
        \/ (u = 1 /\ GroupCreation(u, c, Texts, SmallNumbers, {now}, Written))
        \/ Joining(u, c, Choices, {now})

SpecMembers == Init /\ [][NextMembers]_vars

(***************************************************************************)
(* SpecChats: one user in the private chat and in a group chat, through    *)
(* registration, profile and group creation, within one tick of the clock. *)
(***************************************************************************)
NextChats ==
    \E u \in {1} : \E c \in {u, -1} :
        \/ Registration(u, c, Texts, Choices, {now}, Written)
        \/ Profile(u, c, Texts, Numbers, Choices, Written)
        \/ GroupCreation(u, c, Texts, Numbers, {now}, Written)

SpecChats == Init /\ [][NextChats]_vars

(***************************************************************************)
(* Properties of the specification document, by claim.                     *)
(***************************************************************************)
\* the users, the chats and the group ids the specifications reach
UserIds == {1, 2, 3}
GroupIds == {Timestamp(t) : t \in AnyTime}
ChatIds == UserIds \cup {-1}

\* C1: no group ever has more members than its max_members; joining a group
\* that is full adds nobody.
C1_MembersWithinMax ==
    \A g \in DOMAIN groups : Len(groups[g].members) <= groups[g].max_members

\* C8: adding a user to a group the user is already in succeeds and changes
\* neither the group's members nor the user's groups: adding twice leaves the
\* store as adding once does.
C8_AddUserToGroupIdempotent ==
    \A u \in UserIds : \A g \in GroupIds :
        LET once  == add_user_to_group(users, groups, u, g)
            twice == add_user_to_group(once.users, once.groups, u, g)
        IN  /\ once.ok =>
                /\ twice.ok
                /\ twice.groups = once.groups
                /\ twice.users = once.users
            /\ (Has(groups, g) /\ Has(users, u) /\ Contains(groups[g].members, u)
                    /\ Contains(users[u].groups, g)) =>
                /\ once.ok
                /\ once.groups = groups
                /\ once.users = users

\* a user has joined, through the button, a group somebody else created
C8_Joined ==
    /\ last.reply = "joined"
    /\ \E g \in DOMAIN groups :
        /\ groups[g].created_by # last.user
        /\ Contains(groups[g].members, last.user)
        /\ Contains(users[last.user].groups, g)

\* the conversations (handler, key) the user u is in, key being (chat, user)
SessionsIn(convs, u) ==
    {s \in UNION {{<<h, key>> : key \in DOMAIN convs[h]} : h \in DOMAIN convs} :
        s[2][2] = u}

\* the handlers whose step validates a number, with the range they accept
Validated ==
    [process_profile_age       |-> 5..100,
     process_group_max         |-> 2..50,
     process_activity_duration |-> 5..180]

\* the text is not a number, or a number outside the range
Rejected(callback, text) ==
    LET n == PyInt(text)
    IN  ~n.ok \/ n.val \notin Validated[callback]

\* C2: when the validator of PROFILE_AGE, GROUP_MAX or ACTIVITY_DURATION rejects
\* the text (not a number, or out of range), the conversation stays at the same
\* step, user_data is exactly as before and nothing is written to the store,
\* however many rejections follow one another.
C2_RejectionKeepsStep ==
    [][(last'.callback \in DOMAIN Validated /\ Rejected(last'.callback, last'.text)) =>
            /\ conversations' = conversations
            /\ user_data' = user_data
            /\ users' = users
            /\ groups' = groups
            /\ activities' = activities
            /\ SessionsIn(conversations', last'.user) # {}]_vars

\* the user is still at GROUP_MAX, with the answers given, after a number out
\* of range
C2_RejectedAtGroupMax ==
    /\ last.callback = "process_group_max"
    /\ Rejected(last.callback, last.text)
    /\ PyInt(last.text).ok
    /\ ConvState("group_conv_handler", <<last.chat, last.user>>) = GROUP_MAX
    /\ Has(user_data, last.user)
    /\ Has(user_data[last.user], "group_desc")

\* C3: no user is ever at a step of two conversations at once.
C3_OneSessionPerUser ==
    \A u \in UserIds : Cardinality(SessionsIn(conversations, u)) <= 1

\* the entry commands, with the conversation and the step they open
EntryCommands ==
    [start             |-> [conv |-> "conv_handler", state |-> REGISTER_NAME],
     criar_grupo       |-> [conv |-> "group_conv_handler", state |-> GROUP_NAME],
     iniciar_atividade |-> [conv |-> "activity_conv_handler", state |-> ACTIVITY_GROUP]]

\* the user may open the dialog of the entry command
Allowed(u, command) ==
    CASE command = "start" -> ~Has(users, u)
      [] command = "criar_grupo" -> Has(users, u) /\ users[u].role = AT
      [] command = "iniciar_atividade" ->
            Has(users, u) /\ users[u].role = AT /\ AtGroups(groups, u) # << >>

\* C4: an entry command sent by a user who is in a session, and who may use it,
\* replaces the session: afterwards the user is at the first step of the
\* requested dialog and in no other conversation.
C4_EntryReplacesSession ==
    [][\A command \in DOMAIN EntryCommands :
        (/\ last'.kind = "command"
         /\ last'.command = command
         /\ Allowed(last'.user, command)
         /\ SessionsIn(conversations, last'.user) # {}) =>
            LET key == <<last'.chat, last'.user>>
                e   == EntryCommands[command]
            IN  /\ SessionsIn(conversations', last'.user) = {<<e.conv, key>>}
                /\ conversations'[e.conv][key] = e.state]_vars

\* C5: right after /start a registered user is in no conversation, and an
\* unregistered user is at REGISTER_NAME and in no other conversation.
C5_StartCancelsSession ==
    [][(last'.kind = "command" /\ last'.command = "start") =>
            LET key == <<last'.chat, last'.user>>
            IN  IF Has(users, last'.user)
                THEN SessionsIn(conversations', last'.user) = {}
                ELSE /\ SessionsIn(conversations', last'.user) = {<<"conv_handler", key>>}
                     /\ conversations'["conv_handler"][key] = REGISTER_NAME]_vars

\* the handlers that complete a dialog, with the step they are registered
\* under, their conversation and the commit of the dialog
Completing ==
    [process_role |->
        [conv |-> "conv_handler", state |-> REGISTER_ROLE, commit |-> "create_user"],
     process_profile_communication |->
        [conv |-> "conv_handler", state |-> PROFILE_COMMUNICATION,
         commit |-> "update_user_profile"],
     process_group_max |->
        [conv |-> "group_conv_handler", state |-> GROUP_MAX, commit |-> "create_group"],
     process_activity_duration |->
        [conv |-> "activity_conv_handler", state |-> ACTIVITY_DURATION,
         commit |-> "create_activity"]]

\* the steps of the dialog a completing handler belongs to
DialogSteps(callback) ==
    CASE callback = "process_role" -> {REGISTER_NAME, REGISTER_ROLE}
      [] callback = "process_profile_communication" ->
            {PROFILE_AGE, PROFILE_GENDER, PROFILE_CONTACTS, PROFILE_ACADEMIC,
             PROFILE_PROFESSIONALS, PROFILE_INTERESTS, PROFILE_TRIGGERS,
             PROFILE_COMMUNICATION}
      [] callback = "process_group_max" ->
            {GROUP_NAME, GROUP_THEME, GROUP_DESC, GROUP_MAX}
      [] callback = "process_activity_duration" ->
            {ACTIVITY_GROUP, ACTIVITY_TYPE, ACTIVITY_TITLE, ACTIVITY_DESC,
             ACTIVITY_DURATION}

\* the event completes its dialog: the handler of the last step, its input
\* accepted
Completes(event) ==
    /\ event.callback \in DOMAIN Completing
    /\ event.callback \in DOMAIN Validated => ~Rejected(event.callback, event.text)

\* the records of the dictionary D other than k are those of E
SameApartFrom(D, E, k) ==
    /\ DOMAIN D \ {k} = DOMAIN E \ {k}
    /\ \A x \in DOMAIN D \ {k} : D[x] = E[x]

\* the one record the commit of the dialog writes, and nothing else in the store
Committed(event) ==
    LET u == event.user
    IN  CASE event.callback = "process_role" ->
                /\ Has(users', u)
                /\ users'[u].name = user_data'[u].name
                /\ users'[u].role = user_data'[u].role
                /\ SameApartFrom(users', users, u)
                /\ groups' = groups /\ activities' = activities
          [] event.callback = "process_profile_communication" ->
                /\ Has(users', u)
                /\ users'[u].profile.age = user_data'[u].profile_age
                /\ users'[u].profile.communication_preferences.style =
                        user_data'[u].profile_communication
                /\ users'[u].profile.gender = user_data'[u].profile_gender
                /\ SameApartFrom(users', users, u)
                /\ groups' = groups /\ activities' = activities
          [] event.callback = "process_group_max" ->
                LET g == Timestamp(now')
                IN  /\ Has(groups', g)
                    /\ groups'[g].name = user_data[u].group_name
                    /\ groups'[g].max_members = PyInt(event.text).val
                    /\ groups'[g].created_by = u
                    /\ groups'[g].members = <<u>>
                    /\ SameApartFrom(groups', groups, g)
                    /\ users'[u].groups = Append(users[u].groups, g)
                    /\ SameApartFrom(users', users, u)
                    /\ activities' = activities
          [] event.callback = "process_activity_duration" ->
                /\ Cardinality(DOMAIN activities' \ DOMAIN activities) = 1
                /\ \A a \in DOMAIN activities' \ DOMAIN activities :
                        /\ activities'[a].title = user_data[u].activity_title
                        /\ activities'[a].duration = PyInt(event.text).val
                        /\ activities'[a].created_by = u
                        /\ SameApartFrom(activities', activities, a)
                /\ users' = users /\ groups' = groups

\* C6: the event that completes a dialog performs the one commit of that dialog
\* (create_user, update_user_profile, create_group, create_activity) and leaves
\* the user at no step of that dialog; and a conversation leaves the last step
\* of a dialog only through that event or through /start.
C6_OneCommitAndSessionCleared ==
    [][/\ Completes(last') =>
            LET d   == Completing[last'.callback]
                key == <<last'.chat, last'.user>>
            IN  /\ ConvState(d.conv, key) = d.state
                /\ last'.commit = d.commit
                /\ Committed(last')
                /\ Has(conversations'[d.conv], key) =>
                        conversations'[d.conv][key] \notin DialogSteps(last'.callback)
       /\ \A h \in DOMAIN conversations : \A key \in DOMAIN conversations[h] :
            (/\ \E cb \in DOMAIN Completing : conversations[h][key] = Completing[cb].state
             /\ Get(conversations'[h], key, END) # conversations[h][key]) =>
                \/ Completes(last') /\ Completing[last'.callback].state = conversations[h][key]
                \/ last'.callback = "start"]_vars

\* an activity has been created, the last of the dialogs to complete, and its
\* creator is in no conversation
C6_ActivityCreated ==
    /\ last.callback = "process_activity_duration"
    /\ last.commit = "create_activity"
    /\ DOMAIN activities # {}
    /\ DOMAIN groups # {}
    /\ SessionsIn(conversations, last.user) = {}

\* C7: once the store holds a user, it holds that user with the same role in
\* every later state.
C7_RoleNeverChanges ==
    [][\A u \in DOMAIN users : Has(users', u) /\ users'[u].role = users[u].role]_vars

C10_SessionTextNotMediated ==
    [][last'.callback = "handle_message" =>
            SessionsIn(conversations, last'.user) = {}]_vars

\* the steps that expect a button, all others expecting a text
ChoiceSteps ==
    {REGISTER_ROLE, PROFILE_GENDER, PROFILE_COMMUNICATION, ACTIVITY_GROUP, ACTIVITY_TYPE}

\* the kind of update a step expects
ExpectedKind(state) == IF state \in ChoiceSteps THEN "callback" ELSE "text"

\* the reply that asks for the answer of a step
Prompt ==
    [REGISTER_NAME |-> "ask_name", REGISTER_ROLE |-> "ask_role",
     PROFILE_AGE |-> "ask_age", PROFILE_GENDER |-> "ask_gender",
     PROFILE_CONTACTS |-> "ask_contacts", PROFILE_ACADEMIC |-> "ask_academic",
     PROFILE_PROFESSIONALS |-> "ask_professionals",
     PROFILE_INTERESTS |-> "ask_interests", PROFILE_TRIGGERS |-> "ask_triggers",
     PROFILE_COMMUNICATION |-> "ask_communication",
     GROUP_NAME |-> "ask_group_name", GROUP_THEME |-> "ask_group_theme",
     GROUP_DESC |-> "ask_group_desc", GROUP_MAX |-> "ask_group_max",
     ACTIVITY_GROUP |-> "ask_activity_group", ACTIVITY_TYPE |-> "ask_activity_type",
     ACTIVITY_TITLE |-> "ask_activity_title", ACTIVITY_DESC |-> "ask_activity_desc",
     ACTIVITY_DURATION |-> "ask_activity_duration"]

\* C11: a button press while the user's step expects a text, or a text while it
\* expects a button, leaves the conversation and user_data as they are and is
\* answered with the prompt of the current step.
C11_MismatchReprompts ==
    [][\A h \in DOMAIN conversations :
        LET key == <<last'.chat, last'.user>>
        IN  (/\ SessionsIn(conversations, last'.user) = {<<h, key>>}
             /\ last'.kind \in {"text", "callback"}
             /\ last'.kind # ExpectedKind(conversations[h][key])) =>
                /\ conversations' = conversations
                /\ user_data' = user_data
                /\ last'.reply = Prompt[conversations[h][key]]]_vars

(***************************************************************************)
(* SpecProfile: one user in the private chat through registration and the  *)
(* profile dialog, with answers that have separators and blanks in them.   *)
(***************************************************************************)
ProfileTexts == {<<"Ana">>, <<" ", "Ana", ",", " ", "Bo", "\n", " ">>}

NextProfile ==
    \E u \in {1} : \E c \in {u} :
        \/ Registration(u, c, ProfileTexts, Choices, {now}, Written)
        \/ Profile(u, c, ProfileTexts, Numbers, Choices, Written)

SpecProfile == Init /\ [][NextProfile]_vars

\* the key of user_data a handler of the registration and profile dialogs
\* stores its answer under
AnswerKey ==
    [process_name                  |-> "name",
     process_role                  |-> "role",
     process_profile_age           |-> "profile_age",
     process_profile_gender        |-> "profile_gender",
     process_profile_contacts      |-> "profile_contacts",
     process_profile_academic      |-> "profile_academic",
     process_profile_professionals |-> "profile_professionals",
     process_profile_interests     |-> "profile_interests",
     process_profile_triggers      |-> "profile_triggers",
     process_profile_communication |-> "profile_communication"]

\* the answer the event gives, parsed as its step parses it
Answer(event) ==
    CASE event.callback \in {"process_name", "process_profile_academic"} -> event.text
      [] event.callback = "process_profile_age" -> PyInt(event.text).val
      [] event.callback \in {"process_profile_contacts", "process_profile_professionals"} ->
            SplitList(event.text, "\n")
      [] event.callback \in {"process_profile_interests", "process_profile_triggers"} ->
            SplitList(event.text, ",")
      [] OTHER -> event.data

NextFaulty ==
    \E u \in {1} : \E c \in {u} :
        \/ Registration(u, c, Texts, Choices, AnyTime, MayFail)
        \/ Profile(u, c, Texts, Numbers, Choices, MayFail)
        \/ GroupCreation(u, c, Texts, Numbers, AnyTime, MayFail)
        \/ ActivityCreation(u, c, Texts, Numbers, Choices, AnyTime, MayFail)

SpecFaulty == Init /\ [][NextFaulty]_vars

FailureReplies ==
    [register_error |-> "conv_handler", profile_error |-> "conv_handler",
     group_error |-> "group_conv_handler", activity_error |-> "activity_conv_handler"]

\* the handlers of the states of a conversation
StateCallbacks(h) ==
    CASE h = "conv_handler" ->
            {"process_name", "process_role", "process_profile_age",
             "process_profile_gender", "process_profile_contacts",
             "process_profile_academic", "process_profile_professionals",
             "process_profile_interests", "process_profile_triggers",
             "process_profile_communication"}
      [] h = "group_conv_handler" ->
            {"process_group_name", "process_group_theme", "process_group_desc",
             "process_group_max"}
      [] h = "activity_conv_handler" ->
            {"process_activity_group", "process_activity_type",
             "process_activity_title", "process_activity_desc",
             "process_activity_duration"}

\* the texts and button presses a user may send
Answers ==
    {TextMessage(text) : text \in Texts \cup Numbers}
        \cup {CallbackQuery(data) : data \in Choices \cup {GroupData(g) : g \in GroupIds}}

\* C14: when the write of a completing step fails, the store is as before, the
\* handler has ended the conversation, and no text or button press is taken by
\* a step of that dialog any more: only its entry command opens it again.
C14_FailedCommitClearsSession ==
    [][\A u \in UserIds : \A c \in ChatIds : \A h \in DOMAIN conversations :
        (/\ last'.reply \in DOMAIN FailureReplies
         /\ FailureReplies[last'.reply] = h
         /\ last'.user = u /\ last'.chat = c) =>
            /\ Has(conversations[h], <<c, u>>)
            /\ ~Has(conversations'[h], <<c, u>>)
            /\ users' = users /\ groups' = groups /\ activities' = activities
            /\ last'.commit = "none"
            /\ \A upd \in Answers :
                    (Route(<<c, u>>, upd).callback \notin StateCallbacks(h))']_vars

\* the write of create_group has just failed: the answers are still in
\* user_data, no group is stored for them and the user is out of the dialog
C14_GroupWriteFailed ==
    /\ last.reply = "group_error"
    /\ Has(user_data[last.user], "group_max")
    /\ groups = EmptyDict
    /\ ~Has(conversations["group_conv_handler"], <<last.chat, last.user>>)

\* the number of times x is in the list
Count(seq, x) == Cardinality({i \in 1..Len(seq) : seq[i] = x})

\* C15: a completed group creation commits under an id that is not in the
\* store yet: the number of groups grows by one, no stored group is replaced,
\* and the id is in the creator's groups list exactly once.
C15_FreshGroupId ==
    [][last'.commit = "create_group" =>
            /\ Cardinality(DOMAIN groups') = Cardinality(DOMAIN groups) + 1
            /\ \A g \in DOMAIN groups : Has(groups', g) /\ groups'[g] = groups[g]
            /\ \A g \in DOMAIN groups' \ DOMAIN groups :
                    Count(users'[last'.user].groups, g) = 1]_vars

\* C16: a user is in the members list of a group exactly when the group is in
\* the groups list of the user.
C16_MembershipOnBothSides ==
    \A u \in UserIds : \A g \in GroupIds :
        (Has(groups, g) /\ Contains(groups[g].members, u))
            <=> (Has(users, u) /\ Contains(users[u].groups, g))


\* C17: the role step of a user who already has a record does not report a
\* created user and leaves the name, the role and the groups list of the
\* record as they were.
C17_CreateUserKeepsExisting ==
    [][\A u \in UserIds :
          (Has(users, u) /\ last'.callback = "process_role" /\ last'.user = u)
              => /\ last'.commit # "create_user"
                 /\ users'[u].name = users[u].name
                 /\ users'[u].role = users[u].role
                 /\ users'[u].groups = users[u].groups]_vars


(***************************************************************************)
(* SpecTokens: one user in the private chat through registration, group    *)
(* creation and activity creation, whose client may answer the group       *)
(* keyboard with the token of any group id: the callback data of an update *)
(* is what the client sent, whether or not a button on display carries it. *)
(***************************************************************************)
\* the group tokens a client may send
Tokens == {GroupData(Timestamp(t)) : t \in AnyTime}

NextTokens ==
    \E u \in {1} : \E c \in {u} :
        \/ Registration(u, c, Texts, Choices, AnyTime, Written)
        \/ GroupCreation(u, c, Texts, Numbers, AnyTime, Written)
        \/ ActivityCreation(u, c, Texts, Numbers, Choices, AnyTime, Written)
        \/ \E data \in Tokens : ProcessActivityGroup(u, c, Keyboard(c, {data}), data)

SpecTokens == Init /\ [][NextTokens]_vars

\* C18: /iniciar_atividade opens a conversation only for a registered user of
\* role 'at' who created at least one group, and every stored activity is in
\* an existing group created by the creator of the activity.
C18_ActivitiesInOwnedGroups ==
    [][/\ \A u \in UserIds : \A c \in ChatIds :
            (/\ last'.callback = "start_activity_command"
             /\ last'.user = u
             /\ last'.chat = c
             /\ Has(conversations'["activity_conv_handler"], <<c, u>>)) =>
                /\ Has(users, u)
                /\ users[u].role = AT
                /\ \E g \in DOMAIN groups : groups[g].created_by = u
       /\ \A a \in DOMAIN activities' :
            /\ Has(groups', activities'[a].group_id)
            /\ groups'[activities'[a].group_id].created_by = activities'[a].created_by]_vars


(***************************************************************************)
(* SpecIdle: one user in the private chat through registration and group   *)
(* creation, with spans of time in which no update arrives.  main() passes *)
(* no conversation_timeout to the ConversationHandlers and schedules no    *)
(* job, so the bot does nothing while the time passes.                     *)
(***************************************************************************)
\* the span, in ticks of the clock, after which a conversation counts as stale
StalenessWindow == 1

\* no update arrives for longer than the staleness window
Idle(t) ==
    /\ Reading(t)
    /\ t > now + StalenessWindow
    /\ now' = t
    /\ last' = [user |-> 0, chat |-> 0, kind |-> "idle", command |-> "",
                text |-> << >>, data |-> << >>, callback |-> None, reply |-> "none",
                commit |-> "none", mediated |-> FALSE, alert |-> FALSE,
                runs |-> last.runs]
    /\ UNCHANGED <<users, groups, activities, conversations, user_data, keyboards>>

NextIdle ==
    \/ \E u \in {1} : \E c \in {u} :
        \/ Registration(u, c, Texts, Choices, AnyTime, Written)
        \/ GroupCreation(u, c, Texts, Numbers, AnyTime, Written)
        \/ Messages(u, c, Texts, Choices)
    \/ \E t \in AnyTime : Idle(t)

SpecIdle == Init /\ [][NextIdle]_vars

\* Application.process_update when no conversation is open: the entry point
\* that takes the update, else the plain handler
FreshCallback(upd) ==
    IF \E i \in 1..3 : EntryPoint(ConvHandlers[i], upd) /= None
    THEN LET i == CHOOSE j \in 1..3 :
                      /\ EntryPoint(ConvHandlers[j], upd) /= None
                      /\ \A k \in 1..(j - 1) : EntryPoint(ConvHandlers[k], upd) = None
         IN  EntryPoint(ConvHandlers[i], upd)
    ELSE PlainHandler(upd)

\* the update a record of last was written for
UpdateOf(l) == [kind |-> l.kind, command |-> l.command, text |-> l.text, data |-> l.data]

\* C19: the first update after a span longer than the staleness window
\* without any update is handled as it is when no conversation is open.
C19_StaleSessionEvicted ==
    [][(last.kind = "idle" /\ last'.kind # "idle") =>
            last'.callback = FreshCallback(UpdateOf(last'))]_vars


(***************************************************************************)
(* SpecScopes: one user in the private chat and in a group chat who        *)
(* registers and sends free text, within one tick of the clock.            *)
(***************************************************************************)
NextScopes ==
    \E u \in {1} : \E c \in {u, -1} :
        \/ Registration(u, c, Texts, Choices, {now}, Written)
        \/ Profile(u, c, Texts, Numbers, Choices, Written)
        \/ Messages(u, c, Texts, Choices)

SpecScopes == Init /\ [][NextScopes]_vars

\* C20: a text message of a user who is in no conversation is passed to the
\* AI mediator (llm.provide_individual_support or llm.mediate_group_message),
\* in the private chat and in a group chat.
C20_FreeTextMediated ==
    [][\A u \in UserIds :
          (/\ last'.kind = "text"
           /\ last'.user = u
           /\ SessionsIn(conversations, u) = {}) => last'.mediated]_vars


\* C21: the role of every stored user is 'autista' or 'at'.
C21_RoleIsParticipantOrFacilitator ==
    \A u \in DOMAIN users : users[u].role \in {AUTISTA, AT}


(***************************************************************************)
(* SpecRanges: one user in the private chat through every dialog, who      *)
(* answers each numeric step with the limits of its range, their           *)
(* neighbours and a word, the age step also with a negative and a padded   *)
(* number.                                                                 *)
(***************************************************************************)
AgeNumbers ==
    {<<"abc">>, <<"-", "5">>, <<" ", "3", "0">>, <<"4">>, <<"5">>,
     <<"1", "0", "0">>, <<"1", "0", "1">>}

MaxNumbers == {<<"abc">>, <<"1">>, <<"2">>, <<"5", "0">>, <<"5", "1">>}

DurationNumbers ==
    {<<"abc">>, <<"4">>, <<"5">>, <<"1", "8", "0">>, <<"1", "8", "1">>}

NextRanges ==
    \E u \in {1} : \E c \in {u} :
        \/ Registration(u, c, Texts, Choices, {now}, Written)
        \/ Profile(u, c, Texts, AgeNumbers, Choices, Written)
        \/ GroupCreation(u, c, Texts, MaxNumbers, {now}, Written)
        \/ ActivityCreation(u, c, Texts, DurationNumbers, Choices, AnyTime, Written)

SpecRanges == Init /\ [][NextRanges]_vars

\* C22: the age step moves to the gender step exactly when the text is an
\* integer in 5..100, the max-members step commits the group, with that
\* number, exactly when it is one in 2..50, the duration step commits the
\* activity, with that number, exactly when it is one in 5..180; a step that
\* does not accept stays where it is; every stored group has max_members in
\* 2..50 and every stored activity a duration in 5..180.
C22_NumericStepsAcceptTheirRanges ==
    [][/\ \A u \in UserIds : \A c \in ChatIds :
            (last'.callback \in DOMAIN Validated /\ last'.user = u /\ last'.chat = c) =>
                LET accepted == ~Rejected(last'.callback, last'.text)
                    number   == PyInt(last'.text).val
                IN  /\ last'.callback = "process_profile_age" =>
                        /\ accepted <=> ConvState("conv_handler", <<c, u>>)' = PROFILE_GENDER
                        /\ ~accepted <=> ConvState("conv_handler", <<c, u>>)' = PROFILE_AGE
                        /\ accepted => user_data'[u]["profile_age"] = number
                    /\ last'.callback = "process_group_max" =>
                        /\ accepted <=> last'.commit = "create_group"
                        /\ ~accepted <=> ConvState("group_conv_handler", <<c, u>>)' = GROUP_MAX
                        /\ accepted => \E g \in DOMAIN groups' :
                                           /\ groups'[g].created_at = now'
                                           /\ groups'[g].max_members = number
                    /\ last'.callback = "process_activity_duration" =>
                        /\ accepted <=> last'.commit = "create_activity"
                        /\ ~accepted <=>
                              ConvState("activity_conv_handler", <<c, u>>)' = ACTIVITY_DURATION
                        /\ accepted => \E a \in DOMAIN activities' :
                                           /\ activities'[a].created_at = now'
                                           /\ activities'[a].duration = number
       /\ \A g \in DOMAIN groups' : groups'[g].max_members \in 2..50
       /\ \A a \in DOMAIN activities' : activities'[a].duration \in 5..180]_vars

\* the three numeric steps have each accepted a limit of their range: age 100,
\* max_members 2, duration 180
C22_LimitsAccepted ==
    /\ last.callback = "process_activity_duration"
    /\ last.text = <<"1", "8", "0">>
    /\ \E a \in DOMAIN activities : activities[a].duration = 180
    /\ \E g \in DOMAIN groups : groups[g].max_members = 2


\* C23: a stored user has a 'profile' entry exactly when its role is
\* 'autista'.
C23_ProfileOnlyForParticipants ==
    \A u \in DOMAIN users : Has(users[u], "profile") <=> users[u].role = AUTISTA


\* C24: add_user_to_group for a group id the store does not hold, or for a
\* user id it does not hold, answers False and returns the store as it was;
\* a press of a join button by such a user or for such a group is answered
\* with the error and changes no user, no group and no activity.
C24_JoinNotFoundChangesNothing ==
    [][/\ \A u \in UserIds : \A g \in GroupIds :
            (~Has(groups, g) \/ ~Has(users, u)) =>
                LET res == add_user_to_group(users, groups, u, g)
                IN  ~res.ok /\ res.users = users /\ res.groups = groups
       /\ \A u \in UserIds :
            (/\ last'.callback = "join_group_callback"
             /\ last'.user = u
             /\ (~Has(users, u) \/ ~Has(groups, DataId(last'.data)))) =>
                /\ last'.reply = "join_error"
                /\ last'.commit = "none"
                /\ users' = users
                /\ groups' = groups
                /\ activities' = activities]_vars

\* a user without a record has pressed the join button of an existing group
\* and got the error
C24_UnregisteredJoinRefused ==
    /\ last.callback = "join_group_callback"
    /\ last.reply = "join_error"
    /\ ~Has(users, last.user)
    /\ Has(groups, DataId(last.data))
    /\ ~Contains(groups[DataId(last.data)].members, last.user)


\* C25: the members list of every group holds no user id twice and begins
\* with the creator of the group.
C25_MembersDistinctCreatorFirst ==
    \A g \in DOMAIN groups :
        /\ \A u \in UserIds : Count(groups[g].members, u) <= 1
        /\ Len(groups[g].members) >= 1
        /\ groups[g].members[1] = groups[g].created_by

\* a group has its creator and two users who joined it as members
C25_ThreeMembers ==
    \E g \in DOMAIN groups :
        /\ Len(groups[g].members) = 3
        /\ last.callback = "join_group_callback"
        /\ last.reply = "joined"


\* the handlers of the steps of a dialog that do not complete it
NonCompleting ==
    {"process_name",
     "process_profile_age", "process_profile_gender", "process_profile_contacts",
     "process_profile_academic", "process_profile_professionals",
     "process_profile_interests", "process_profile_triggers",
     "process_group_name", "process_group_theme", "process_group_desc",
     "process_activity_group", "process_activity_type", "process_activity_title",
     "process_activity_desc"}

\* C26: a step of a dialog that does not complete it leaves users, groups and
\* activities as they are; whatever is handled, the store changes only at the
\* completing step of a dialog or at a join, or in nothing but the
\* last_active of the sender.
C26_StoreSeesNoPartialDialog ==
    [][/\ last'.callback \in NonCompleting =>
            /\ users' = users
            /\ groups' = groups
            /\ activities' = activities
       /\ \/ last'.callback \in DOMAIN Completing \cup {"join_group_callback"}
          \/ /\ groups' = groups
             /\ activities' = activities
             /\ \A u \in UserIds :
                    last'.user = u =>
                        \/ users' = users
                        \/ users' = update_last_active(users, u, now')]_vars

\* the user has answered the name, the theme and the description of a group
\* and the store holds no group
C26_AnswersHeldBack ==
    /\ last.callback = "process_group_desc"
    /\ Has(user_data[last.user], "group_desc")
    /\ DOMAIN groups = {}


(***************************************************************************)
(* SpecGateway: one user in the private chat through registration, profile *)
(* and group creation, whose free text is answered by a mediator that may  *)
(* return any response, the empty one included, with alert_needed True or  *)
(* False.                                                                  *)
(***************************************************************************)
AnyGatewayReturn ==
    {[ai_response |-> r, alert_needed |-> a] :
        r \in {<< >>, <<"canned", "1">>}, a \in BOOLEAN}

NextGateway ==
    \E u \in {1} : \E c \in {u} :
        \/ Registration(u, c, Texts, Choices, {now}, Written)
        \/ Profile(u, c, Texts, Numbers, Choices, Written)
        \/ GroupCreation(u, c, Texts, Numbers, {now}, Written)
        \/ \E text \in Texts : \E a \in AnyGatewayReturn :
              HandleMessage(u, c, text, a.ai_response, a.alert_needed)

SpecGateway == Init /\ [][NextGateway]_vars

\* C27: handle_message leaves every conversation at its step, user_data as
\* it is, and users, groups and activities unchanged, whatever response and
\* alert_needed the mediator returned.
C27_MediationChangesNothing ==
    [][last'.callback = "handle_message" =>
            /\ conversations' = conversations
            /\ user_data' = user_data
            /\ users' = users
            /\ groups' = groups
            /\ activities' = activities]_vars

\* a registered user at the gender step, the age answered, has sent a text
\* for which the mediator returned alert_needed True
C27_AlertDuringProfile ==
    /\ last.callback = "handle_message"
    /\ last.mediated
    /\ last.alert
    /\ ConvState("conv_handler", <<last.chat, last.user>>) = PROFILE_GENDER
    /\ Has(user_data[last.user], "profile_age")


(***************************************************************************)
(* SpecShared: two users in one group chat, each through registration and  *)
(* group creation, within one tick of the clock.  The keyboards the bot    *)
(* sends to the chat are on display for both.                              *)
(***************************************************************************)
NextShared ==
    \E u \in {1, 2} : \E c \in {-1} :
        \/ Registration(u, c, Texts, Choices, {now}, Written)
        \/ GroupCreation(u, c, Texts, SmallNumbers, {now}, Written)

SpecShared == Init /\ [][NextShared]_vars

\* the conversations of user u: for every handler, the steps by chat
SessionsOf(convs, u) ==
    [h \in DOMAIN convs |->
        [key \in {k \in DOMAIN convs[h] : k[2] = u} |-> convs[h][key]]]

\* C28: an update of one user leaves the conversations of every other user at
\* their steps, the user_data of every other user as it is and the stored
\* record of every other user unchanged; and a dialog that completes commits
\* the values its own user answered.
C28_UsersDoNotInterfere ==
    [][/\ \A a \in UserIds : \A b \in UserIds \ {a} :
            last'.user = a =>
                /\ SessionsOf(conversations', b) = SessionsOf(conversations, b)
                /\ Has(user_data', b) = Has(user_data, b)
                /\ Has(user_data, b) => user_data'[b] = user_data[b]
                /\ Has(users', b) = Has(users, b)
                /\ Has(users, b) => users'[b] = users[b]
       /\ (Completes(last') /\ last'.commit # "none") => Committed(last')]_vars

\* user 2 has completed the registration while user 1 was at a step of the
\* group creation with answers given
C28_Interleaved ==
    /\ last.user = 2
    /\ last.callback = "process_role"
    /\ last.commit = "create_user"
    /\ \E c \in ChatIds : ConvState("group_conv_handler", <<c, 1>>) = GROUP_DESC
    /\ Has(user_data[1], "group_theme")


(***************************************************************************)
(* SpecListing: one user who registers in the private chat and in a group  *)
(* chat, creates a group and an activity in the private chat and lists the *)
(* activities.                                                             *)
(***************************************************************************)
NextListing ==
    \E u \in {1} :
        \/ \E c \in {u, -1} : Registration(u, c, Texts, Choices, {now}, Written)
        \/ \E c \in {u} :
              \/ GroupCreation(u, c, Texts, SmallNumbers, {now}, Written)
              \/ ActivityCreation(u, c, Texts, Numbers, Choices, {now, MaxClock}, Written)
              \/ \E t \in {now} : ListActivities(u, c, t)

SpecListing == Init /\ [][NextListing]_vars

\* C29: get_user_activities(u) is the set of the stored activities that are
\* scheduled and whose group is in the groups list of u, empty for a user
\* without a record; and an activity is in it exactly when it is scheduled
\* and u is the creator or a member of its group.
C29_ListedIffInGroup ==
    \A u \in UserIds :
        LET listed == get_user_activities(users, activities, u)
        IN  /\ ~Has(users, u) => listed = {}
            /\ Has(users, u) =>
                  listed = {a \in DOMAIN activities :
                               /\ activities[a].status = <<"scheduled">>
                               /\ Contains(users[u].groups, activities[a].group_id)}
            /\ \A a \in DOMAIN activities :
                  a \in listed <=>
                      /\ activities[a].status = <<"scheduled">>
                      /\ Has(groups, activities[a].group_id)
                      /\ \/ groups[activities[a].group_id].created_by = u
                         \/ Contains(groups[activities[a].group_id].members, u)


\* the handlers of /ajuda, /grupos and /atividades
Informational == {"help_command", "list_groups", "list_activities"}

\* C30: /ajuda, /grupos and /atividades leave every conversation at its step
\* and user_data, groups and activities as they are; of users they change
\* the last_active of the sender and nothing else, and nothing at all when
\* the store holds no record of the sender.
C30_InformationalCommandsOnlyTouch ==
    [][\A u \in UserIds :
          (last'.callback \in Informational /\ last'.user = u) =>
              /\ conversations' = conversations
              /\ user_data' = user_data
              /\ groups' = groups
              /\ activities' = activities
              /\ ~Has(users, u) => users' = users
              /\ Has(users, u) =>
                    /\ users' = [users EXCEPT ![u].last_active = now']
                    /\ SameApartFrom(users', users, u)]_vars

\* a registered user at a step of a dialog has sent an informational command,
\* which moved the user's last_active
C30_TouchedDuringDialog ==
    /\ last.callback \in Informational
    /\ SessionsIn(conversations, last.user) # {}
    /\ Has(users, last.user)
    /\ users[last.user].last_active = now
    /\ users[last.user].last_active > users[last.user].created_at


(***************************************************************************)
(* SpecRuns: one facilitator runs group creation in the private chat and   *)
(* in a group chat, with either of two group names, and activity creation  *)
(* in the private chat; /start abandons a run.                             *)
(***************************************************************************)
\* what the user sends at the name step of a run: two texts, to tell the
\* answer of one run from the answer of another
RunTexts == {<<"Ana">>, <<"Bo">>}

\* what the user sends at the numeric steps of a run: a number in the range
\* of the max-members step and of the duration step
RunNumbers == {<<"3", "0">>}

\* the buttons the user presses: the facilitator role and an activity type
RunChoices == {AT, <<"type", "_", "jogo">>}

NextRuns ==
    \E u \in {1} :
        \/ \E c \in {u} : Registration(u, c, Texts, RunChoices, {now}, Written)
        \/ \E c \in {u, -1} :
              \/ \E t \in {now} : CreateGroupStart(u, c, t)
              \/ \E text \in RunTexts : ProcessGroupName(u, c, text)
              \/ \E text \in Texts : ProcessGroupTheme(u, c, text)
              \/ \E text \in Texts : ProcessGroupDesc(u, c, text)
              \/ \E text \in RunNumbers : \E t \in {now} :
                    ProcessGroupMax(u, c, text, t, TRUE)
        \/ \E c \in {u} :
              \/ \E t \in {now} : StartActivityCommand(u, c, t)
              \/ \E m \in keyboards : \E data \in Presses(m, RunChoices) :
                    \/ ProcessActivityGroup(u, c, m, data)
                    \/ ProcessActivityType(u, c, m, data)
              \/ \E text \in Texts : ProcessActivityTitle(u, c, text)
              \/ \E text \in Texts : ProcessActivityDesc(u, c, text)
              \/ \E text \in RunNumbers : \E t \in {MaxClock} :
                    ProcessActivityDuration(u, c, text, t, TRUE)

SpecRuns == Init /\ [][NextRuns]_vars

\* C31: a commit only uses answers of the run that completes: when
\* process_group_max commits a group, the run it ends has taken, since its
\* /criar_grupo, exactly the answers of the name, theme and description steps
\* in this order, and the stored group has these and the number of this
\* update; when process_activity_duration commits an activity, the run has
\* taken, since its /iniciar_atividade, exactly the answers of the group,
\* type, title and description steps in this order, and the stored activity
\* has these and the number of this update.
C31_CommitUsesOnlyItsRun ==
    [][\A u \in UserIds : \A c \in ChatIds :
          /\ (last'.commit = "create_group" /\ last'.user = u /\ last'.chat = c) =>
                LET run == Get(last.runs, <<"group_conv_handler", c, u>>, << >>)
                    g   == groups'[Timestamp(now')]
                IN  /\ [i \in DOMAIN run |-> run[i].step] =
                          <<"process_group_name", "process_group_theme",
                            "process_group_desc">>
                    /\ g.name = run[1].answer
                    /\ g.theme = run[2].answer
                    /\ g.description = run[3].answer
                    /\ g.max_members = PyInt(last'.text).val
          /\ (last'.commit = "create_activity" /\ last'.user = u /\ last'.chat = c) =>
                LET run == Get(last.runs, <<"activity_conv_handler", c, u>>, << >>)
                    a   == activities'[PyStr(now')]
                IN  /\ [i \in DOMAIN run |-> run[i].step] =
                          <<"process_activity_group", "process_activity_type",
                            "process_activity_title", "process_activity_desc">>
                    /\ a.group_id = DataId(run[1].answer)
                    /\ a.type = Split(run[2].answer, "_")[2]
                    /\ a.title = run[3].answer
                    /\ a.description = run[4].answer
                    /\ a.duration = PyInt(last'.text).val]_vars

=============================================================================
